---------------------------- MODULE Spec2Model ----------------------------
(***************************************************************************)
(* Model of the background-download core of download.py: the global        *)
(* download_progress map, the /api/download and /api/progress handlers,    *)
(* the ProgressHook callback and the download_video_async worker thread.   *)
(* Every request handler and every worker runs in its own thread, so each  *)
(* statement that touches shared state is one atomic step of the model.    *)
(***************************************************************************)
EXTENDS Integers, Sequences, FiniteSets, TLC

(***************************************************************************)
(* Bounds                                                                  *)
(***************************************************************************)
MaxReq == 2
MaxNow == 2
TicksPerSecond == 2

Requests == 1..MaxReq

VARIABLES
    now,                \* wall clock, in sub-second ticks
    download_progress,  \* the global dict: download_id -> record
    rpc,                \* position of each /api/download handler
    download_id,        \* local variable download_id of each handler
    wpc,                \* position of each worker thread
    werr,               \* str(e) of the exception a worker is handling
    termWrites,         \* history: terminal statuses each worker has written
    dirExists,          \* whether ./downloads exists on disk
    lastPoll,           \* the last /api/progress response
    hist,               \* history: what each worker has done so far
    lastInfo,           \* the last /api/info response
    request,            \* JSON body of the submission followed in detail
    thread_args,        \* args=(...) its handler gave to threading.Thread
    ydl_opts,           \* the options its worker built for the engine
    heap,               \* the dict objects: reference -> content
    store,              \* download_progress as references: id -> reference
    record_ref,         \* the dict each worker has loaded in line 157
    progress,           \* local variable progress of api_progress
    poll_id,            \* the id api_progress was called with
    seen                \* history: values of the polled id during the call

\* what the job-lifecycle actions leave alone
refVars == <<heap, store, record_ref, progress, poll_id, seen>>
sideVars == <<lastInfo, request, thread_args, ydl_opts, refVars>>

\* the variables of the job lifecycle
jobVars == <<now, download_progress, rpc, download_id, wpc, werr,
             termWrites, dirExists, lastPoll, hist>>

vars == <<jobVars, sideVars>>

(***************************************************************************)
(* Python dict helpers                                                     *)
(***************************************************************************)
\* d.get(k, default)
DictGet(d, k, default) == IF k \in DOMAIN d THEN d[k] ELSE default

\* d[k] = v on an existing dict object: the other keys are kept
DictSetItem(d, k, v) == [x \in (DOMAIN d) \cup {k} |-> IF x = k THEN v ELSE d[x]]

\* m[k] = v on the global map
MapPut(m, k, v) == [x \in (DOMAIN m) \cup {k} |-> IF x = k THEN v ELSE m[x]]

(***************************************************************************)
(* Identifiers                                                             *)
(***************************************************************************)
NoId == <<"none", 0>>

\* a variable that holds nothing yet
NoValue == [none |-> TRUE]

\* object references; a thread holds at most one dict besides those of the map
NullRef == 0
Refs == 1..(2 * MaxReq + 2)

\* strftime('%Y%m%d_%H%M%S') drops everything below the second
Strftime(t) == t \div TicksPerSecond

\* f"download_{datetime.now().strftime('%Y%m%d_%H%M%S')}"
MakeDownloadId(t) == <<"download_", Strftime(t)>>

\* ids a client may poll: every id the generator can produce and one string
\* that it can never produce
ForeignId == <<"other", 0>>
PollIds == {MakeDownloadId(t) : t \in 0..MaxNow} \cup {ForeignId}

(***************************************************************************)
(* Records                                                                 *)
(***************************************************************************)
StartingRecord == [status |-> "starting"]
UnknownRecord == [status |-> "unknown"]
ErrorRecord(msg) == [status |-> "error", error |-> msg]

\* dicts the engine may hand to a progress hook
CbDownloading ==
    ("status" :> "downloading") @@ ("downloaded_bytes" :> 1) @@
    ("total_bytes" :> 2) @@ ("speed" :> 1) @@ ("eta" :> 1) @@
    ("_percent_str" :> "50%")
CbDownloadingBare == ("status" :> "downloading")
CbFinished == ("status" :> "finished") @@ ("filename" :> "f")
CbFinishedNoName == ("status" :> "finished")
CbError == ("status" :> "error")
CallbackDicts == {CbDownloading, CbDownloadingBare, CbFinished,
                  CbFinishedNoName, CbError}

\* ProgressHook.__call__: does the call raise?
HookRaises(d) == d["status"] = "finished" /\ "filename" \notin DOMAIN d

\* ProgressHook.__call__: the map after the call returns
HookWrite(m, id, d) ==
    IF d["status"] = "downloading" THEN
        MapPut(m, id,
            ("status" :> "downloading") @@
            ("downloaded_bytes" :> DictGet(d, "downloaded_bytes", 0)) @@
            ("total_bytes" :> DictGet(d, "total_bytes", 0)) @@
            ("speed" :> DictGet(d, "speed", 0)) @@
            ("eta" :> DictGet(d, "eta", 0)) @@
            ("percent" :> DictGet(d, "_percent_str", "0%")))
    ELSE IF d["status"] = "finished" THEN
        MapPut(m, id, ("status" :> "finished") @@ ("filename" :> d["filename"]))
    ELSE m

\* variant: the lookup falls back to the record of a fresh job
ProgressGetStartingDefault(m, id) == DictGet(m, id, StartingRecord)

\* download_progress.get(download_id, {'status': 'unknown'})
ProgressGet(m, id) == DictGet(m, id, UnknownRecord)

(***************************************************************************)
(* Initial state: the module has been imported, ./downloads was created    *)
(***************************************************************************)
JobInit ==
    /\ now = 0
    /\ download_progress = <<>>
    /\ rpc = [r \in Requests |-> "idle"]
    /\ download_id = [r \in Requests |-> NoId]
    /\ wpc = [r \in Requests |-> "none"]
    /\ werr = [r \in Requests |-> ""]
    /\ termWrites = [r \in Requests |-> <<>>]
    /\ dirExists = TRUE
    /\ lastPoll = [id |-> NoId, rec |-> UnknownRecord]
    /\ hist = [r \in Requests |-> [engineCalls |-> 0, mkdirFailed |-> FALSE,
                                   replacedSnapshot |-> FALSE]]

\* no dict object exists yet
RefInit ==
    /\ heap = [ref \in Refs |-> NoValue]
    /\ store = <<>>
    /\ record_ref = [r \in Requests |-> NullRef]
    /\ progress = NullRef
    /\ poll_id = NoId
    /\ seen = {}

Init ==
    /\ JobInit
    /\ RefInit
    /\ lastInfo = NoValue
    /\ request = NoValue
    /\ thread_args = NoValue
    /\ ydl_opts = NoValue

(***************************************************************************)
(* Environment                                                             *)
(***************************************************************************)
Tick ==
    /\ now < MaxNow
    /\ now' = now + 1
    /\ UNCHANGED <<sideVars, hist, download_progress, rpc, download_id, wpc, werr,
                   termWrites, dirExists, lastPoll>>

\* somebody deletes ./downloads while the server runs
RemoveDir ==
    /\ dirExists
    /\ dirExists' = FALSE
    /\ UNCHANGED <<sideVars, hist, now, download_progress, rpc, download_id, wpc, werr,
                   termWrites, lastPoll>>

(***************************************************************************)
(* /api/download                                                           *)
(***************************************************************************)
\* request.get_json(): the bodies a client may post, told apart by their url
SubmitBodies == {[quality |-> "720p"], [url |-> ""], [url |-> "u"]}

\* "not url" for url = data.get('url'): None and '' are falsy
UrlMissing(data) == IF "url" \in DOMAIN data THEN data["url"] = "" ELSE TRUE

\* variant: the url is validated only after the job has been registered
ApiDownloadRejectLate(r) ==
    /\ rpc[r] = "idle"
    /\ \E data \in SubmitBodies : UrlMissing(data)
    /\ download_progress' = MapPut(download_progress, MakeDownloadId(now), StartingRecord)
    /\ rpc' = [rpc EXCEPT ![r] = "rejected"]
    /\ UNCHANGED <<sideVars, hist, now, download_id, wpc, werr, termWrites, dirExists, lastPoll>>

\* url is empty or missing: the handler returns the error response
ApiDownloadReject(r) ==
    /\ rpc[r] = "idle"
    /\ \E data \in SubmitBodies : UrlMissing(data)
    /\ rpc' = [rpc EXCEPT ![r] = "rejected"]
    /\ UNCHANGED <<sideVars, hist, now, download_progress, download_id, wpc, werr,
                   termWrites, dirExists, lastPoll>>

\* url is present: the handler reads the clock and formats the id
ApiDownloadGenId(r) ==
    /\ rpc[r] = "idle"
    /\ \E data \in SubmitBodies : ~UrlMissing(data)
    /\ download_id' = [download_id EXCEPT ![r] = MakeDownloadId(now)]
    /\ rpc' = [rpc EXCEPT ![r] = "init"]
    /\ UNCHANGED <<sideVars, hist, now, download_progress, wpc, werr, termWrites,
                   dirExists, lastPoll>>

\* variant: the handler leaves the first write to the worker
ApiDownloadInitSkipped(r) ==
    /\ rpc[r] = "init"
    /\ rpc' = [rpc EXCEPT ![r] = "spawn"]
    /\ UNCHANGED <<sideVars, hist, now, download_progress, download_id, wpc, werr,
                   termWrites, dirExists, lastPoll>>

\* download_progress[download_id] = {'status': 'starting'}
ApiDownloadInit(r) ==
    /\ rpc[r] = "init"
    /\ download_progress' = MapPut(download_progress, download_id[r], StartingRecord)
    /\ rpc' = [rpc EXCEPT ![r] = "spawn"]
    /\ UNCHANGED <<sideVars, hist, now, download_id, wpc, werr, termWrites, dirExists, lastPoll>>

\* thread.start()
ApiDownloadStart(r) ==
    /\ rpc[r] = "spawn"
    /\ wpc' = [wpc EXCEPT ![r] = "check_dir"]
    /\ rpc' = [rpc EXCEPT ![r] = "respond"]
    /\ UNCHANGED <<sideVars, hist, now, download_progress, download_id, werr, termWrites,
                   dirExists, lastPoll>>

\* variant: the handler joins the worker thread before it answers
ApiDownloadReturnAfterJoin(r) ==
    /\ rpc[r] = "respond"
    /\ wpc[r] = "done"
    /\ rpc' = [rpc EXCEPT ![r] = "returned"]
    /\ UNCHANGED <<sideVars, hist, now, download_progress, download_id, wpc, werr,
                   termWrites, dirExists, lastPoll>>

\* return jsonify({'success': True, 'download_id': download_id})
ApiDownloadReturn(r) ==
    /\ rpc[r] = "respond"
    /\ rpc' = [rpc EXCEPT ![r] = "returned"]
    /\ UNCHANGED <<sideVars, hist, now, download_progress, download_id, wpc, werr,
                   termWrites, dirExists, lastPoll>>

\* the response of a finished /api/download request
Response(r) ==
    IF rpc[r] = "rejected"
    THEN [success |-> FALSE, error |-> "URL is required"]
    ELSE [success |-> TRUE, download_id |-> download_id[r]]

(***************************************************************************)
(* /api/progress/<download_id>                                             *)
(***************************************************************************)
\* variant: the lookup registers the default under the id (setdefault)
ApiProgressSetDefault(id) ==
    /\ lastPoll' = [id |-> id, rec |-> ProgressGet(download_progress, id)]
    /\ download_progress' =
           MapPut(download_progress, id, ProgressGet(download_progress, id))
    /\ UNCHANGED <<sideVars, hist, now, rpc, download_id, wpc, werr,
                   termWrites, dirExists>>

\* progress = download_progress.get(download_id, {'status': 'unknown'});
\* return jsonify(progress)
ApiProgress(id) ==
    /\ lastPoll' = [id |-> id, rec |-> ProgressGet(download_progress, id)]
    /\ UNCHANGED <<sideVars, hist, now, download_progress, rpc, download_id, wpc, werr,
                   termWrites, dirExists>>

(***************************************************************************)
(* download_video_async                                                    *)
(***************************************************************************)
\* if not os.path.exists(output_path)
WorkerCheckDir(w) ==
    /\ wpc[w] = "check_dir"
    /\ wpc' = [wpc EXCEPT ![w] = IF dirExists THEN "download" ELSE "makedirs"]
    /\ hist' = IF dirExists
               THEN [hist EXCEPT ![w].engineCalls = @ + 1]
               ELSE hist
    /\ UNCHANGED <<sideVars, now, download_progress, rpc, download_id, werr,
                   termWrites, dirExists, lastPoll>>

\* variant: a failure of makedirs is swallowed and the download goes ahead
WorkerMakeDirsIgnoresFailure(w) ==
    /\ wpc[w] = "makedirs"
    /\ \/ /\ ~dirExists
          /\ dirExists' = TRUE
          /\ hist' = [hist EXCEPT ![w].engineCalls = @ + 1]
       \/ /\ dirExists' = dirExists
          /\ hist' = [hist EXCEPT ![w].engineCalls = @ + 1, ![w].mkdirFailed = TRUE]
    /\ wpc' = [wpc EXCEPT ![w] = "download"]
    /\ UNCHANGED <<sideVars, now, download_progress, rpc, download_id, werr, termWrites, lastPoll>>

\* os.makedirs(output_path): creates the directory, or raises because it
\* exists by now, or raises for a reason of the file system
WorkerMakeDirs(w) ==
    /\ wpc[w] = "makedirs"
    /\ \/ /\ ~dirExists
          /\ dirExists' = TRUE
          /\ wpc' = [wpc EXCEPT ![w] = "download"]
          /\ hist' = [hist EXCEPT ![w].engineCalls = @ + 1]
          /\ werr' = werr
       \/ /\ dirExists
          /\ dirExists' = dirExists
          /\ wpc' = [wpc EXCEPT ![w] = "except"]
          /\ hist' = [hist EXCEPT ![w].mkdirFailed = TRUE]
          /\ werr' = [werr EXCEPT ![w] = "File exists"]
       \/ /\ ~dirExists
          /\ dirExists' = dirExists
          /\ wpc' = [wpc EXCEPT ![w] = "except"]
          /\ hist' = [hist EXCEPT ![w].mkdirFailed = TRUE]
          /\ werr' = [werr EXCEPT ![w] = "Permission denied"]
    /\ UNCHANGED <<sideVars, now, download_progress, rpc, download_id, termWrites, lastPoll>>

\* variant: an exception of the hook ends the thread outside the try block
EngineCallbackEscapes(w, d) ==
    /\ wpc[w] = "download"
    /\ IF HookRaises(d)
       THEN /\ wpc' = [wpc EXCEPT ![w] = "done"]
            /\ werr' = [werr EXCEPT ![w] = "'filename'"]
            /\ download_progress' = download_progress
       ELSE /\ download_progress' = HookWrite(download_progress, download_id[w], d)
            /\ UNCHANGED <<wpc, werr>>
    /\ UNCHANGED <<sideVars, hist, now, rpc, download_id, termWrites, dirExists,
                   lastPoll>>

\* ydl.download([url]) calls the progress hook with d
EngineCallback(w, d) ==
    /\ wpc[w] = "download"
    /\ IF HookRaises(d)
       THEN /\ wpc' = [wpc EXCEPT ![w] = "except"]
            /\ werr' = [werr EXCEPT ![w] = "'filename'"]
            /\ download_progress' = download_progress
       ELSE /\ download_progress' = HookWrite(download_progress, download_id[w], d)
            /\ UNCHANGED <<wpc, werr>>
    /\ UNCHANGED <<sideVars, hist, now, rpc, download_id, termWrites, dirExists,
                   lastPoll>>

\* ydl.download([url]) returns without raising
EngineReturn(w) ==
    /\ wpc[w] = "download"
    /\ wpc' = [wpc EXCEPT ![w] = "set_completed"]
    /\ UNCHANGED <<sideVars, hist, now, download_progress, rpc, download_id, werr,
                   termWrites, dirExists, lastPoll>>

\* variant: the worker calls ydl.download([url]) again when it has raised
EngineRaiseRetries(w) ==
    /\ wpc[w] = "download"
    /\ hist[w].engineCalls < 3
    /\ hist' = [hist EXCEPT ![w].engineCalls = @ + 1]
    /\ UNCHANGED <<sideVars, now, download_progress, rpc, download_id, wpc, werr,
                   termWrites, dirExists, lastPoll>>

\* ydl.download([url]) raises
EngineRaise(w) ==
    /\ wpc[w] = "download"
    /\ wpc' = [wpc EXCEPT ![w] = "except"]
    /\ werr' = [werr EXCEPT ![w] = "download failed"]
    /\ UNCHANGED <<sideVars, hist, now, download_progress, rpc, download_id, termWrites,
                   dirExists, lastPoll>>

\* variant: a statement after the completed write raises inside the try block
WorkerSetCompletedThenRaise(w) ==
    /\ wpc[w] = "set_completed"
    /\ download_id[w] \in DOMAIN download_progress
    /\ download_progress' =
           [download_progress EXCEPT ![download_id[w]] =
               DictSetItem(@, "status", "completed")]
    /\ termWrites' = [termWrites EXCEPT ![w] = Append(@, "completed")]
    /\ wpc' = [wpc EXCEPT ![w] = "except"]
    /\ werr' = [werr EXCEPT ![w] = "late failure"]
    /\ UNCHANGED <<sideVars, hist, now, rpc, download_id, dirExists, lastPoll>>

\* download_progress[download_id]['status'] = 'completed'
WorkerSetCompleted(w) ==
    /\ wpc[w] = "set_completed"
    /\ IF download_id[w] \in DOMAIN download_progress
       THEN /\ download_progress' =
                   [download_progress EXCEPT ![download_id[w]] =
                       DictSetItem(@, "status", "completed")]
            /\ termWrites' = [termWrites EXCEPT ![w] = Append(@, "completed")]
            /\ wpc' = [wpc EXCEPT ![w] = "done"]
            /\ werr' = werr
       ELSE /\ wpc' = [wpc EXCEPT ![w] = "except"]
            /\ werr' = [werr EXCEPT ![w] = "KeyError"]
            /\ UNCHANGED <<download_progress, termWrites>>
    /\ UNCHANGED <<sideVars, hist, now, rpc, download_id, dirExists, lastPoll>>

\* the record of id in m has more keys than status: it is a snapshot of the
\* hook, or a record made from one
IsSnapshot(m, id) ==
    IF id \in DOMAIN m THEN DOMAIN m[id] # {"status"} ELSE FALSE

\* variant: the except block updates the record it finds
WorkerExceptMerges(w) ==
    /\ wpc[w] = "except"
    /\ download_progress' =
           MapPut(download_progress, download_id[w],
                  ErrorRecord(werr[w]) @@
                  DictGet(download_progress, download_id[w], <<>>))
    /\ termWrites' = [termWrites EXCEPT ![w] = Append(@, "error")]
    /\ hist' = [hist EXCEPT ![w].replacedSnapshot =
                    IsSnapshot(download_progress, download_id[w])]
    /\ wpc' = [wpc EXCEPT ![w] = "done"]
    /\ werr' = [werr EXCEPT ![w] = ""]
    /\ UNCHANGED <<sideVars, now, rpc, download_id, dirExists, lastPoll>>

\* except Exception as e: download_progress[download_id] = {...}; the name e
\* is unbound again when the block ends
WorkerExcept(w) ==
    /\ wpc[w] = "except"
    /\ download_progress' = MapPut(download_progress, download_id[w], ErrorRecord(werr[w]))
    /\ termWrites' = [termWrites EXCEPT ![w] = Append(@, "error")]
    /\ hist' = [hist EXCEPT ![w].replacedSnapshot =
                    IsSnapshot(download_progress, download_id[w])]
    /\ wpc' = [wpc EXCEPT ![w] = "done"]
    /\ werr' = [werr EXCEPT ![w] = ""]
    /\ UNCHANGED <<sideVars, now, rpc, download_id, dirExists, lastPoll>>

\* a step of worker w in the code of download_video_async itself
WorkerRun(w) ==
    \/ WorkerCheckDir(w)
    \/ WorkerMakeDirs(w)
    \/ WorkerSetCompleted(w)
    \/ WorkerExcept(w)

\* the call ydl.download([url]) of worker w comes back
EngineFinish(w) ==
    \/ EngineReturn(w)
    \/ EngineRaise(w)

Next ==
    \/ Tick
    \/ RemoveDir
    \/ \E r \in Requests : ApiDownloadReject(r)
    \/ \E r \in Requests : ApiDownloadGenId(r)
    \/ \E r \in Requests : ApiDownloadInit(r)
    \/ \E r \in Requests : ApiDownloadStart(r)
    \/ \E r \in Requests : ApiDownloadReturn(r)
    \/ \E w \in Requests : WorkerCheckDir(w)
    \/ \E w \in Requests : WorkerMakeDirs(w)
    \/ \E w \in Requests : \E d \in CallbackDicts : EngineCallback(w, d)
    \/ \E w \in Requests : EngineReturn(w)
    \/ \E w \in Requests : EngineRaise(w)
    \/ \E w \in Requests : WorkerSetCompleted(w)
    \/ \E w \in Requests : WorkerExcept(w)

\* submissions and workers, without a polling client
Spec == Init /\ [][Next]_vars

\* the same with clients polling /api/progress at any moment
PollNext ==
    \/ Next
    \/ \E id \in PollIds : ApiProgress(id)

PollSpec == Init /\ [][PollNext]_vars

(***************************************************************************)
(* /api/info and get_video_info.  Python values that the engine returns    *)
(* are tagged with their type; strings are sequences of characters.        *)
(***************************************************************************)
PyNone == [none |-> TRUE]
PyStr(cs) == [str |-> cs]
PyInt(n) == [int |-> n]

\* truth value of a Python object in a condition
Truthy(v) ==
    IF "none" \in DOMAIN v THEN FALSE
    ELSE IF "str" \in DOMAIN v THEN v.str # <<>>
    ELSE v.int # 0

\* the [:200] of the description
DescLimit == 200

Digit(d) == <<"0", "1", "2", "3", "4", "5", "6", "7", "8", "9">>[d + 1]

\* str(n) for n >= 0
RECURSIVE StrOfInt(_)
StrOfInt(n) ==
    IF n < 10 THEN <<Digit(n)>> ELSE StrOfInt(n \div 10) \o <<Digit(n % 10)>>

\* f"{n:,}" for n >= 0
RECURSIVE FormatThousands(_)
FormatThousands(n) ==
    IF n < 1000 THEN StrOfInt(n)
    ELSE FormatThousands(n \div 1000) \o <<",">> \o
         <<Digit((n % 1000) \div 100), Digit((n % 100) \div 10), Digit(n % 10)>>

\* s[:k]
Prefix(s, k) == SubSeq(s, 1, IF Len(s) < k THEN Len(s) ELSE k)

StrNA == <<"N", "/", "A">>
StrSeconds == <<" ", "s", "e", "c", "o", "n", "d", "s">>
StrEllipsis == <<".", ".", ".">>

\* what ydl.extract_info(url, download=False) may do
InfoFull ==
    [title |-> PyStr(<<"T">>), duration |-> PyInt(95), uploader |-> PyStr(<<"U">>),
     view_count |-> PyInt(1234567), upload_date |-> PyStr(<<"2", "0", "2", "4">>),
     description |-> PyStr(<<"a", "b", "c">>)]
InfoSparse == [id |-> PyStr(<<"x">>)]
InfoNulls ==
    [title |-> PyNone, duration |-> PyNone, uploader |-> PyNone,
     view_count |-> PyNone, upload_date |-> PyNone, description |-> PyNone]
InfoDicts == {InfoFull, InfoSparse, InfoNulls}

InfoOutcomes ==
    {[raise |-> "Unsupported URL"], [returns |-> PyNone]}
        \cup {[returns |-> i] : i \in InfoDicts}

\* the 'data' object of a successful lookup
InfoData(info) ==
    [title |-> DictGet(info, "title", PyStr(StrNA)),
     duration |->
        IF Truthy(DictGet(info, "duration", PyNone))
        THEN PyStr(StrOfInt(info["duration"].int) \o StrSeconds)
        ELSE PyStr(StrNA),
     uploader |-> DictGet(info, "uploader", PyStr(StrNA)),
     view_count |->
        IF Truthy(DictGet(info, "view_count", PyNone))
        THEN PyStr(FormatThousands(info["view_count"].int))
        ELSE PyStr(StrNA),
     upload_date |-> DictGet(info, "upload_date", PyStr(StrNA)),
     description |->
        IF Truthy(DictGet(info, "description", PyNone))
        THEN PyStr(Prefix(info["description"].str, DescLimit) \o StrEllipsis)
        ELSE PyStr(StrNA)]

\* variant: the lookup runs outside the try block
GetVideoInfoUncaught(outcome) ==
    IF "raise" \in DOMAIN outcome
    THEN [escaped |-> outcome.raise]
    ELSE IF outcome.returns = PyNone
    THEN [success |-> FALSE, error |-> "Could not fetch video information"]
    ELSE [success |-> TRUE, data |-> InfoData(outcome.returns)]

\* get_video_info(url), given what the engine does for that url
GetVideoInfo(outcome) ==
    IF "raise" \in DOMAIN outcome
    THEN [success |-> FALSE, error |-> outcome.raise]
    ELSE IF outcome.returns = PyNone
    THEN [success |-> FALSE, error |-> "Could not fetch video information"]
    ELSE [success |-> TRUE, data |-> InfoData(outcome.returns)]

\* api_info for a body without url
ApiInfoReject ==
    /\ \E data \in SubmitBodies : UrlMissing(data)
    /\ UNCHANGED <<jobVars, request, thread_args, ydl_opts, refVars>>
    /\ lastInfo' = [success |-> FALSE, error |-> "URL is required"]

\* variant: the lookup registers a progress record for the url
ApiInfoRegistersJob(outcome) ==
    /\ \E data \in SubmitBodies : ~UrlMissing(data)
    /\ UNCHANGED <<now, rpc, download_id, wpc, werr, termWrites, dirExists,
                   lastPoll, hist, request, thread_args, ydl_opts, refVars>>
    /\ download_progress' = MapPut(download_progress, MakeDownloadId(now), StartingRecord)
    /\ lastInfo' = GetVideoInfo(outcome)

\* api_info for a body with a url
ApiInfo(outcome) ==
    /\ \E data \in SubmitBodies : ~UrlMissing(data)
    /\ UNCHANGED <<jobVars, request, thread_args, ydl_opts, refVars>>
    /\ lastInfo' = GetVideoInfo(outcome)

\* submissions and workers, with clients asking for video information
InfoNext ==
    \/ Next
    \/ ApiInfoReject
    \/ \E outcome \in InfoOutcomes : ApiInfo(outcome)

InfoSpec == Init /\ [][InfoNext]_vars

(***************************************************************************)
(* One submission followed from its JSON body to the options its worker    *)
(* hands to the engine: api_download reads the body and builds the thread  *)
(* arguments, download_video_async builds ydl_opts from them.              *)
(***************************************************************************)
Absent == "<absent>"

\* a JSON object field, or nothing when the client left it out
Field(k, v) == IF v = Absent THEN <<>> ELSE k :> v

BodyUrls == {Absent, "", "u"}
BodyTypes == {Absent, "video", "audio", "Audio"}
BodyQualities == {Absent, "best", "1080p", "720p", "480p", "360p",
                  "320kbps", "192kbps", "128kbps"}
BodyPaths == {Absent, "/home/me/Downloads"}

RequestBodies ==
    {Field("url", u) @@ Field("download_type", t) @@ Field("quality", q)
        @@ Field("output_path", o) :
        u \in BodyUrls, t \in BodyTypes, q \in BodyQualities, o \in BodyPaths}

\* one alternative of a format expression: the streams it selects and, when
\* it has a [height<=h] filter, the ceiling
Alt(streams) == [streams |-> streams]
AltMax(streams, h) == [streams |-> streams, max_height |-> h]

\* 'bv*[height<=H]+ba/b[height<=H] / bv*+ba/b', alternatives in order
CeilingThenBest(h) ==
    <<AltMax("bv*+ba", h), AltMax("b", h), Alt("bv*+ba"), Alt("b")>>

\* format_map
format_map ==
    ("1080p" :> CeilingThenBest(1080)) @@ ("720p" :> CeilingThenBest(720)) @@
    ("480p" :> CeilingThenBest(480)) @@ ("360p" :> CeilingThenBest(360))

\* 'bv*[height<=720]+ba/b[height<=720]', the default of format_map.get
DefaultVideoFormat == <<AltMax("bv*+ba", 720), AltMax("b", 720)>>

\* variant: unknown quality strings get the lowest bitrate
PreferredQualityLowDefault(quality) ==
    DictGet(("320kbps" :> "320") @@ ("192kbps" :> "192") @@ ("128kbps" :> "128"),
            quality, "128")

\* preferred_quality_map.get(quality, '192')
PreferredQuality(quality) ==
    DictGet(("320kbps" :> "320") @@ ("192kbps" :> "192") @@ ("128kbps" :> "128"),
            quality, "192")

\* common_opts
CommonOpts(output_path, id) ==
    [outtmpl |-> <<output_path, "%(title)s.%(ext)s">>,
     noplaylist |-> TRUE,
     progress_hooks |-> <<id>>,
     concurrent_fragments |-> 3,
     file_access_retries |-> 3,
     retries |-> 3,
     fragment_retries |-> 3,
     skip_download |-> FALSE,
     quiet |-> TRUE,
     no_warnings |-> TRUE]

\* ydl_opts as download_video_async builds it from its arguments
BuildYdlOpts(args) ==
    IF args.download_type = "audio"
    THEN CommonOpts(args.output_path, args.download_id) @@
         [format |-> <<Alt("bestaudio"), Alt("best")>>,
          postprocessors |-> <<[key |-> "FFmpegExtractAudio",
                                preferredcodec |-> "mp3",
                                preferredquality |-> PreferredQuality(args.quality)]>>]
    ELSE CommonOpts(args.output_path, args.download_id) @@
         [format |-> DictGet(format_map, args.quality, DefaultVideoFormat)]

\* variant: the handler takes the directory from the request body
OptsSubmitHonoursPath ==
    /\ request # NoValue
    /\ thread_args = NoValue
    /\ ~UrlMissing(request)
    /\ thread_args' =
          [url |-> request["url"],
           download_type |-> DictGet(request, "download_type", "video"),
           quality |-> DictGet(request, "quality", "best"),
           output_path |-> DictGet(request, "output_path", "./downloads"),
           download_id |-> MakeDownloadId(now)]
    /\ UNCHANGED <<jobVars, lastInfo, request, ydl_opts, refVars>>

\* api_download up to threading.Thread(target=..., args=(...))
OptsSubmit ==
    /\ request # NoValue
    /\ thread_args = NoValue
    /\ ~UrlMissing(request)
    /\ thread_args' =
          [url |-> request["url"],
           download_type |-> DictGet(request, "download_type", "video"),
           quality |-> DictGet(request, "quality", "best"),
           output_path |-> "./downloads",
           download_id |-> MakeDownloadId(now)]
    /\ UNCHANGED <<jobVars, lastInfo, request, ydl_opts, refVars>>

\* download_video_async up to yt_dlp.YoutubeDL(ydl_opts)
OptsBuild ==
    /\ thread_args # NoValue
    /\ ydl_opts = NoValue
    /\ ydl_opts' = BuildYdlOpts(thread_args)
    /\ UNCHANGED <<jobVars, lastInfo, request, thread_args, refVars>>

OptsInit ==
    /\ JobInit
    /\ RefInit
    /\ lastInfo = NoValue
    /\ request \in RequestBodies
    /\ thread_args = NoValue
    /\ ydl_opts = NoValue

OptsNext ==
    \/ OptsSubmit
    \/ OptsBuild

OptsSpec == OptsInit /\ [][OptsNext]_vars

(***************************************************************************)
(* The same handlers and worker at the level of object references.  The    *)
(* map holds references to dict objects; api_progress fetches a reference  *)
(* and serialises the object afterwards, and line 157 loads the reference  *)
(* of the record before it stores the key 'status' into that object.       *)
(* download_progress stays the content of the map: id -> content.          *)
(***************************************************************************)
\* a reference that no dict object occupies
FreeRef(h) ==
    CHOOSE ref \in Refs :
        h[ref] = NoValue /\ \A q \in Refs : h[q] = NoValue => ref <= q

\* reference counting: an object that nothing refers to is freed
Collect(h, st, rr, pg) ==
    [ref \in Refs |->
        IF \/ \E id \in DOMAIN st : st[id] = ref
           \/ \E w \in Requests : rr[w] = ref
           \/ pg = ref
        THEN h[ref]
        ELSE NoValue]

\* the content of the map
View(st, h) == [id \in DOMAIN st |-> h[st[id]]]

\* jsonify(progress)
Jsonify(ref) == heap[ref]

\* the heap becomes h; the content of the map and the history follow
Commit(h) ==
    /\ heap' = Collect(h, store', record_ref', progress')
    /\ download_progress' = View(store', heap')
    /\ seen' = IF progress' = NullRef
               THEN {}
               ELSE seen \cup {ProgressGet(download_progress', poll_id')}

\* download_progress[download_id] = {'status': 'starting'}
ApiDownloadInitRef(r) ==
    /\ rpc[r] = "init"
    /\ rpc' = [rpc EXCEPT ![r] = "spawn"]
    /\ UNCHANGED <<lastInfo, request, thread_args, ydl_opts, record_ref, progress,
                   poll_id, hist, now, download_id, wpc, werr, termWrites,
                   dirExists, lastPoll>>
    /\ LET ref == FreeRef(heap)
       IN /\ store' = MapPut(store, download_id[r], ref)
          /\ Commit([heap EXCEPT ![ref] = StartingRecord])

\* ydl.download([url]) calls the progress hook with d
EngineCallbackRef(w, d) ==
    /\ wpc[w] = "download"
    /\ UNCHANGED <<lastInfo, request, thread_args, ydl_opts, record_ref, progress,
                   poll_id, hist, now, rpc, download_id, termWrites, dirExists,
                   lastPoll>>
    /\ IF HookRaises(d)
       THEN /\ wpc' = [wpc EXCEPT ![w] = "except"]
            /\ werr' = [werr EXCEPT ![w] = "'filename'"]
            /\ store' = store
            /\ Commit(heap)
       ELSE /\ UNCHANGED <<wpc, werr>>
            /\ IF d["status"] \in {"downloading", "finished"}
               THEN LET ref == FreeRef(heap)
                        rec == HookWrite(download_progress, download_id[w], d)[download_id[w]]
                    IN /\ store' = MapPut(store, download_id[w], ref)
                       /\ Commit([heap EXCEPT ![ref] = rec])
               ELSE /\ store' = store
                    /\ Commit(heap)

\* line 157, first half: download_progress[download_id]
WorkerLoadRecord(w) ==
    /\ wpc[w] = "set_completed"
    /\ UNCHANGED <<lastInfo, request, thread_args, ydl_opts, store, progress,
                   poll_id, hist, now, rpc, download_id, termWrites, dirExists,
                   lastPoll>>
    /\ IF download_id[w] \in DOMAIN store
       THEN /\ record_ref' = [record_ref EXCEPT ![w] = store[download_id[w]]]
            /\ wpc' = [wpc EXCEPT ![w] = "store_status"]
            /\ werr' = werr
       ELSE /\ record_ref' = record_ref
            /\ wpc' = [wpc EXCEPT ![w] = "except"]
            /\ werr' = [werr EXCEPT ![w] = "KeyError"]
    /\ Commit(heap)

\* line 157, second half: <the loaded dict>['status'] = 'completed'
WorkerStoreStatus(w) ==
    /\ wpc[w] = "store_status"
    /\ wpc' = [wpc EXCEPT ![w] = "done"]
    /\ termWrites' = [termWrites EXCEPT ![w] = Append(@, "completed")]
    /\ record_ref' = [record_ref EXCEPT ![w] = NullRef]
    /\ UNCHANGED <<lastInfo, request, thread_args, ydl_opts, store, progress,
                   poll_id, hist, now, rpc, download_id, werr, dirExists, lastPoll>>
    /\ Commit([heap EXCEPT ![record_ref[w]] = DictSetItem(@, "status", "completed")])

\* except Exception as e: download_progress[download_id] = {...}
WorkerExceptRef(w) ==
    /\ wpc[w] = "except"
    /\ wpc' = [wpc EXCEPT ![w] = "done"]
    /\ werr' = [werr EXCEPT ![w] = ""]
    /\ termWrites' = [termWrites EXCEPT ![w] = Append(@, "error")]
    /\ hist' = [hist EXCEPT ![w].replacedSnapshot =
                    IsSnapshot(download_progress, download_id[w])]
    /\ UNCHANGED <<lastInfo, request, thread_args, ydl_opts, record_ref, progress,
                   poll_id, now, rpc, download_id, dirExists, lastPoll>>
    /\ LET ref == FreeRef(heap)
       IN /\ store' = MapPut(store, download_id[w], ref)
          /\ Commit([heap EXCEPT ![ref] = ErrorRecord(werr[w])])

\* progress = download_progress.get(download_id, {'status': 'unknown'})
ApiProgressGet(id) ==
    /\ progress = NullRef
    /\ poll_id' = id
    /\ UNCHANGED <<lastInfo, request, thread_args, ydl_opts, store, record_ref,
                   hist, now, rpc, download_id, wpc, werr, termWrites, dirExists,
                   lastPoll>>
    /\ IF id \in DOMAIN store
       THEN /\ progress' = store[id]
            /\ Commit(heap)
       ELSE /\ progress' = FreeRef(heap)
            /\ Commit([heap EXCEPT ![FreeRef(heap)] = UnknownRecord])

\* return jsonify(progress): the response is Jsonify(progress) of this step
ApiProgressReturn ==
    /\ progress # NullRef
    /\ progress' = NullRef
    /\ poll_id' = NoId
    /\ UNCHANGED <<lastInfo, request, thread_args, ydl_opts, store, record_ref,
                   hist, now, rpc, download_id, wpc, werr, termWrites, dirExists,
                   lastPoll>>
    /\ Commit(heap)

\* dicts of the engine that make the hook write
RefCallbackDicts == {CbDownloading, CbFinished}

RefNext ==
    \/ Tick
    \/ \E r \in Requests : ApiDownloadGenId(r)
    \/ \E r \in Requests : ApiDownloadInitRef(r)
    \/ \E r \in Requests : ApiDownloadStart(r)
    \/ \E r \in Requests : ApiDownloadReturn(r)
    \/ \E w \in Requests : WorkerCheckDir(w)
    \/ \E w \in Requests : \E d \in RefCallbackDicts : EngineCallbackRef(w, d)
    \/ \E w \in Requests : EngineReturn(w)
    \/ \E w \in Requests : EngineRaise(w)
    \/ \E w \in Requests : WorkerLoadRecord(w)
    \/ \E w \in Requests : WorkerStoreStatus(w)
    \/ \E w \in Requests : WorkerExceptRef(w)
    \/ \E id \in PollIds : ApiProgressGet(id)
    \/ ApiProgressReturn

\* submissions, workers and a polling client, with dict objects told apart
RefSpec == Init /\ [][RefNext]_vars

(***************************************************************************)
(* Specification with the scheduling the code relies on: every started     *)
(* thread (handler or worker) keeps running, and the engine's download     *)
(* call comes back after any number of callbacks.  Whether a request       *)
(* arrives at all is left open.                                            *)
(***************************************************************************)
\* the steps of handler r once the request has been accepted
HandlerProgress(r) ==
    \/ ApiDownloadInit(r)
    \/ ApiDownloadStart(r)
    \/ ApiDownloadReturn(r)

FairSpec ==
    /\ Spec
    /\ \A r \in Requests : WF_vars(HandlerProgress(r))
    /\ \A w \in Requests : WF_vars(WorkerRun(w))
    /\ \A w \in Requests : WF_vars(EngineFinish(w))

(***************************************************************************)
(* Vocabulary of the properties                                            *)
(***************************************************************************)
TerminalStatuses == {"completed", "error"}
SpecStatuses == {"starting", "downloading", "completed", "error"}
ProgressFields == {"downloaded_bytes", "total_bytes", "speed", "eta", "percent"}

\* starting < downloading < {completed, error}
StatusRank(s) ==
    CASE s = "starting" -> 0
      [] s = "downloading" -> 1
      [] s \in TerminalStatuses -> 2

\* handlers that have returned a download_id to their client
Returned == {r \in Requests : rpc[r] = "returned"}

\* ids some handler has generated
AllocatedIds == {download_id[r] : r \in {x \in Requests : download_id[x] # NoId}}

\* jobs whose initial record has been written
Submitted == {r \in Requests : rpc[r] \in {"spawn", "respond", "returned"}}

\* a write to the map on behalf of job b
JobWrite(b) ==
    \/ ApiDownloadInit(b)
    \/ \E d \in CallbackDicts : EngineCallback(b, d)
    \/ WorkerSetCompleted(b)
    \/ WorkerExcept(b)

(***************************************************************************)
(* C1: the download_ids returned by /api/download are pairwise distinct.   *)
(* Fails: the id is the clock cut to the second, so two submissions in one *)
(* second get one id.                                                      *)
(***************************************************************************)
C1_DistinctDownloadIds ==
    \A r1, r2 \in Returned : r1 # r2 => download_id[r1] # download_id[r2]

(***************************************************************************)
(* C2: two successive polls of one id never go back in the order           *)
(* starting < downloading < {completed, error}.  Fails: a second           *)
(* submission with the same id resets the record to starting.              *)
(***************************************************************************)
C2_PolledStatusMonotonic ==
    [][ ( /\ lastPoll'.id = lastPoll.id
          /\ lastPoll.rec["status"] \in SpecStatuses
          /\ lastPoll'.rec["status"] \in SpecStatuses )
        => StatusRank(lastPoll'.rec["status"]) >= StatusRank(lastPoll.rec["status"]) ]_vars

(***************************************************************************)
(* C3: a record whose status is completed or error is never written again. *)
(* Fails: a submission or a worker that shares the id writes it again.     *)
(***************************************************************************)
C3_NoWriteAfterTerminal ==
    [][ \A id \in DOMAIN download_progress :
            download_progress[id]["status"] \in TerminalStatuses
            => /\ id \in DOMAIN download_progress'
               /\ download_progress'[id] = download_progress[id] ]_vars

(***************************************************************************)
(* C4: a record with status completed has none of the progress fields.     *)
(* Fails: completion sets the status inside the record the last callback   *)
(* left.                                                                   *)
(***************************************************************************)
C4_CompletedHasNoProgressFields ==
    \A id \in DOMAIN download_progress :
        download_progress[id]["status"] = "completed"
        => (DOMAIN download_progress[id]) \cap ProgressFields = {}

(***************************************************************************)
(* C5: every stored record has status starting, downloading, completed or  *)
(* error.  Fails: the hook stores status finished.                         *)
(***************************************************************************)
C5_StoredStatusInSpecSet ==
    \A id \in DOMAIN download_progress :
        download_progress[id]["status"] \in SpecStatuses

(***************************************************************************)
(* C6: every job whose worker thread was started eventually has a record   *)
(* with status completed or error.                                         *)
(***************************************************************************)
C6_StartedWorkerReachesTerminal ==
    \A w \in Requests :
        (wpc[w] # "none")
        ~> ( /\ download_id[w] \in DOMAIN download_progress
             /\ download_progress[download_id[w]]["status"] \in TerminalStatuses )

\* a worker whose progress callback raised has written the error record
C6_Witness ==
    \E w \in Requests :
        /\ wpc[w] = "done"
        /\ termWrites[w] = <<"error">>
        /\ download_progress[download_id[w]] = ErrorRecord("'filename'")

(***************************************************************************)
(* C7: a worker run makes exactly one terminal write: none before it ends, *)
(* one when it has ended, never a completed and an error write.            *)
(***************************************************************************)
C7_ExactlyOneTerminalWrite ==
    \A w \in Requests :
        /\ Len(termWrites[w]) <= 1
        /\ (wpc[w] = "done") <=> (Len(termWrites[w]) = 1)

\* one worker ended with a completed write while another ended with an error
C7_Witness ==
    \E w1, w2 \in Requests :
        /\ wpc[w1] = "done" /\ termWrites[w1] = <<"completed">>
        /\ wpc[w2] = "done" /\ termWrites[w2] = <<"error">>

(***************************************************************************)
(* C8: the starting record is in the map before the thread is started and  *)
(* before the handler returns, records are never removed, and a poll of a  *)
(* returned download_id never answers unknown.                             *)
(***************************************************************************)
C8_ReturnedIdNeverUnknown ==
    /\ [](\A r \in Requests :
            (wpc[r] # "none" \/ rpc[r] \in {"respond", "returned"})
            => download_id[r] \in DOMAIN download_progress)
    /\ [][ /\ DOMAIN download_progress \subseteq DOMAIN download_progress'
           /\ \A id \in PollIds :
                (ApiProgress(id) /\ id \in {download_id[r] : r \in Returned})
                => lastPoll'.rec["status"] # "unknown" ]_vars

\* a poll right after the submission returned saw the starting record
C8_Witness ==
    \E r \in Returned :
        /\ lastPoll.id = download_id[r]
        /\ lastPoll.rec = StartingRecord
        /\ wpc[r] = "check_dir"

(***************************************************************************)
(* C9: no write on behalf of job b changes what a poll of the download_id  *)
(* of another submitted job a returns.  Fails: two jobs of one second      *)
(* share the id and the record.                                            *)
(***************************************************************************)
C9_JobsDoNotInterfere ==
    [][ \A b \in Requests :
            JobWrite(b)
            => \A a \in Submitted \ {b} :
                 ProgressGet(download_progress', download_id[a])
                 = ProgressGet(download_progress, download_id[a]) ]_vars

C11_EmptyUrlCreatesNoJob ==
    /\ [](\A r \in Requests :
            rpc[r] = "rejected"
            => /\ Response(r) = [success |-> FALSE, error |-> "URL is required"]
               /\ download_id[r] = NoId
               /\ wpc[r] = "none")
    /\ [][ \A r \in Requests :
             ApiDownloadReject(r)
             => /\ download_progress' = download_progress
                /\ download_id' = download_id
                /\ wpc' = wpc ]_vars

\* a request was rejected while the map holds the record of another job
C11_Witness ==
    \E r \in Requests :
        /\ rpc[r] = "rejected"
        /\ DOMAIN download_progress # {}
        /\ DOMAIN download_progress = AllocatedIds

(***************************************************************************)
(* C12: a record with status completed contains the filename.  Fails: the  *)
(* filename is only there when the engine's last callback was a finished   *)
(* one.                                                                    *)
(***************************************************************************)
C12_CompletedHasFilename ==
    \A id \in DOMAIN download_progress :
        download_progress[id]["status"] = "completed"
        => "filename" \in DOMAIN download_progress[id]

(***************************************************************************)
(* C13: once the thread is started the handler can return at once,         *)
(* wherever the worker is, and what it returns is the generated id.        *)
(***************************************************************************)
C13_ResponseDoesNotWaitForWorker ==
    \A r \in Requests :
        /\ rpc[r] = "respond" => ENABLED ApiDownloadReturn(r)
        /\ rpc[r] = "returned"
           => Response(r) = [success |-> TRUE, download_id |-> download_id[r]]

\* the response is out while the job is still downloading
C13_Witness ==
    \E r \in Returned :
        /\ wpc[r] = "download"
        /\ download_progress[download_id[r]]["status"] = "downloading"

(***************************************************************************)
(* C17: no job ends with an error because another job created the output   *)
(* directory between its existence check and its makedirs call.  Fails:    *)
(* makedirs raises when the directory exists by then.                      *)
(***************************************************************************)
C17_ConcurrentDirCreationSucceeds ==
    \A w \in Requests : ~(wpc[w] = "except" /\ werr[w] = "File exists")

(***************************************************************************)
(* C18: when makedirs fails the worker never calls the engine's download,  *)
(* and the record it writes is {status: error, error: <message>}.          *)
(***************************************************************************)
C18_DirFailureEndsJobWithoutDownload ==
    /\ [](\A w \in Requests :
            hist[w].mkdirFailed
            => /\ hist[w].engineCalls = 0
               /\ wpc[w] \in {"except", "done"}
               /\ wpc[w] = "done" => termWrites[w] = <<"error">>)
    /\ [][ \A w \in Requests :
             (WorkerExcept(w) /\ hist[w].mkdirFailed)
             => /\ werr[w] \in {"File exists", "Permission denied"}
                /\ download_progress'[download_id[w]] = ErrorRecord(werr[w]) ]_vars

\* a worker that could not create the directory has ended with the error record
C18_Witness ==
    \E w \in Requests :
        /\ hist[w].mkdirFailed
        /\ wpc[w] = "done"
        /\ download_progress[download_id[w]] = ErrorRecord("Permission denied")

(***************************************************************************)
(* C19: for every video job the format expression starts with              *)
(* alternatives under a height ceiling and ends with an alternative        *)
(* without ceiling.  Fails: for a quality outside 1080p/720p/480p/360p,    *)
(* the request default 'best' included, the expression has no such         *)
(* fallback.                                                               *)
(***************************************************************************)
C19_VideoFormatHasFallback ==
    (ydl_opts # NoValue /\ thread_args.download_type # "audio")
    => LET f == ydl_opts.format
       IN /\ "max_height" \in DOMAIN f[1]
          /\ "max_height" \notin DOMAIN f[Len(f)]

(***************************************************************************)
(* C20: for every audio job the format is bestaudio/best and the only      *)
(* postprocessor extracts mp3 at 320, 192 or 128 for 320kbps, 192kbps,     *)
(* 128kbps, and at 192 for any other quality.                              *)
(***************************************************************************)
C20_AudioOptions ==
    (ydl_opts # NoValue /\ thread_args.download_type = "audio")
    => /\ ydl_opts.format = <<[streams |-> "bestaudio"], [streams |-> "best"]>>
       /\ Len(ydl_opts.postprocessors) = 1
       /\ ydl_opts.postprocessors[1].key = "FFmpegExtractAudio"
       /\ ydl_opts.postprocessors[1].preferredcodec = "mp3"
       /\ ydl_opts.postprocessors[1].preferredquality =
            CASE thread_args.quality = "320kbps" -> "320"
              [] thread_args.quality = "128kbps" -> "128"
              [] OTHER -> "192"

\* an audio job whose request named no quality got 192
C20_Witness ==
    /\ ydl_opts # NoValue
    /\ thread_args.download_type = "audio"
    /\ "quality" \notin DOMAIN request
    /\ thread_args.quality = "best"
    /\ ydl_opts.postprocessors[1].preferredquality = "192"

(***************************************************************************)
(* C14: whatever the engine's lookup does (raise, return nothing, return   *)
(* metadata), get_video_info returns a result; a raise and a lookup        *)
(* without result give {success: false, error: <message>}.                 *)
(***************************************************************************)
C14_InfoErrorsBecomeResults ==
    [][ \A outcome \in InfoOutcomes :
          ApiInfo(outcome)
          => /\ "success" \in DOMAIN lastInfo'
             /\ ("raise" \in DOMAIN outcome)
                => lastInfo' = [success |-> FALSE, error |-> outcome.raise]
             /\ ("raise" \notin DOMAIN outcome /\ outcome.returns = PyNone)
                => (~lastInfo'.success /\ "error" \in DOMAIN lastInfo') ]_vars

\* the engine raised and the client got the message as an error result
C14_Witness ==
    lastInfo = [success |-> FALSE, error |-> "Unsupported URL"]

(***************************************************************************)
(* C15: a /api/info request, accepted or rejected, successful or not,      *)
(* changes neither the progress map nor any handler or worker thread.      *)
(***************************************************************************)
C15_InfoCreatesNoJob ==
    [][ (ApiInfoReject \/ \E outcome \in InfoOutcomes : ApiInfo(outcome))
        => UNCHANGED <<download_progress, download_id, rpc, wpc>> ]_vars

\* a lookup succeeded while a job is downloading, and the job is untouched
C15_Witness ==
    /\ lastInfo # NoValue
    /\ lastInfo.success
    /\ \E w \in Requests :
         /\ wpc[w] = "download"
         /\ download_progress[download_id[w]]["status"] = "downloading"
    /\ DOMAIN download_progress = AllocatedIds

\* C16: every poll returns a value that the map held for the polled id at
\* some moment between the lookup of api_progress and its return; no poll
\* returns a record that mixes the fields of different writes.
C16_PollIsPointInTime ==
    [][ (progress # NullRef /\ progress' = NullRef)
        => Jsonify(progress) \in seen ]_vars

\* the keys of the data object
InfoKeys == {"title", "duration", "uploader", "view_count", "upload_date",
             "description"}

\* the engine supplied field k: the key is there and its value is not
\* null, empty or zero
Supplied(info, k) == IF k \in DOMAIN info THEN Truthy(info[k]) ELSE FALSE

(***************************************************************************)
(* C21: the data object of a successful lookup has the six keys, every     *)
(* value is a string, and a field the engine did not supply (absent, null  *)
(* or empty) is the marker 'N/A'.  Fails: title, uploader and upload_date   *)
(* are passed through as null when the engine supplies the key with null.  *)
(***************************************************************************)
C21_MissingFieldsRenderNA ==
    \A outcome \in InfoOutcomes :
        (lastInfo = GetVideoInfo(outcome) /\ lastInfo.success)
        => /\ DOMAIN lastInfo.data = InfoKeys
           /\ \A k \in InfoKeys :
                /\ "str" \in DOMAIN lastInfo.data[k]
                /\ ~Supplied(outcome.returns, k)
                   => lastInfo.data[k] = PyStr(StrNA)

(***************************************************************************)
(* C22: the record a failing worker writes is exactly {status: error,      *)
(* error: <message>}; it replaces the record of the id, so an error record *)
(* never carries a progress field or a filename.                           *)
(***************************************************************************)
C22_ErrorRecordReplacesSnapshot ==
    /\ [][ \A w \in Requests :
             (wpc[w] = "except" /\ wpc'[w] = "done")
             => download_progress'[download_id[w]] = ErrorRecord(werr[w]) ]_vars
    /\ [](\A id \in DOMAIN download_progress :
            download_progress[id]["status"] = "error"
            => DOMAIN download_progress[id] = {"status", "error"})

\* a worker failed after the hook had stored a snapshot, and the record of
\* its id is the bare error record
C22_Witness ==
    \E w \in Requests :
        /\ hist[w].replacedSnapshot
        /\ wpc[w] = "done"
        /\ download_progress[download_id[w]] = ErrorRecord("download failed")

(***************************************************************************)
(* C23: a worker calls the engine's download at most once; a worker that   *)
(* handles an exception writes the error record and ends, and a worker     *)
(* that has ended takes no further step and calls the engine no more.      *)
(***************************************************************************)
C23_NoRetry ==
    /\ [](\A w \in Requests : hist[w].engineCalls <= 1)
    /\ [][ \A w \in Requests :
             /\ (wpc[w] = "except" /\ wpc'[w] # "except")
                => /\ wpc'[w] = "done"
                   /\ termWrites'[w] = Append(termWrites[w], "error")
                   /\ hist'[w].engineCalls = hist[w].engineCalls
             /\ wpc[w] = "done"
                => /\ wpc'[w] = "done"
                   /\ hist'[w].engineCalls = hist[w].engineCalls ]_vars

\* a worker called the engine once, the call failed, and the worker has
\* ended with the error record as its only terminal write
C23_Witness ==
    \E w \in Requests :
        /\ hist[w].engineCalls = 1
        /\ wpc[w] = "done"
        /\ termWrites[w] = <<"error">>
        /\ ~hist[w].mkdirFailed

(***************************************************************************)
(* C24: a poll leaves the progress map as it was, for an issued id and for *)
(* any other; after a poll of an id without record the id still has no     *)
(* record, so the next poll of it answers {status: unknown} again.         *)
(***************************************************************************)
C24_PollIsReadOnly ==
    [][ \A id \in PollIds :
          ApiProgress(id)
          => /\ download_progress' = download_progress
             /\ id \notin DOMAIN download_progress
                => /\ id \notin DOMAIN download_progress'
                   /\ ProgressGet(download_progress', id) = UnknownRecord ]_vars

\* jobs have records, and the id polled last, which no job has, has none
C24_Witness ==
    /\ lastPoll.id = ForeignId
    /\ lastPoll.rec = UnknownRecord
    /\ DOMAIN download_progress # {}
    /\ ForeignId \notin DOMAIN download_progress

(***************************************************************************)
(* C25: whatever output_path the request body carries, the worker is       *)
(* started with the directory './downloads' and builds its output template *)
(* in that directory.                                                      *)
(***************************************************************************)
C25_OutputPathIsFixed ==
    /\ thread_args # NoValue => thread_args.output_path = "./downloads"
    /\ ydl_opts # NoValue => ydl_opts.outtmpl[1] = "./downloads"

\* a request that names another directory has been turned into options
C25_Witness ==
    /\ ydl_opts # NoValue
    /\ "output_path" \in DOMAIN request
    /\ DictGet(request, "output_path", "./downloads") # "./downloads"

=============================================================================
